---- MODULE Spec2Model ----
(***************************************************************************)
(* A model of the arfarf malware scanner (src/arfarf.go, and its earlier   *)
(* build src/unnamed/part_000 with a hard-coded hash table).               *)
(*                                                                         *)
(* Strings are sequences of one-character strings, so that ToLower,        *)
(* TrimSpace, HasSuffix and the lexical order of filepath.Walk are         *)
(* computed and not assumed.  A path is a sequence of names.               *)
(***************************************************************************)
EXTENDS Naturals, Sequences, FiniteSets, TLC

VARIABLES
    prog,           \* which build runs: "arfarf" (src/arfarf.go) or "part_000"
    pc,             \* position of main: "main", "load", "scan", "exit"
    hashDir,        \* the directory virus_md5_hashes as the run finds it
    loadIdx,        \* index of the next entry of the loop in loadHashesFromDir
    malwareHashes,  \* the package-level map, as the set of its keys
    root,           \* the path given with -scan
    tmpDir,         \* the directory ioutil.TempDir("", ...) creates in
    fs,             \* the file system: path -> node
    stack,          \* the frames of the running filepath.Walk calls
    unzipped,       \* the directories extractZip has returned (unzippedDir)
    out             \* the lines printed so far, as records

vars == <<prog, pc, hashDir, loadIdx, malwareHashes, root, tmpDir, fs, stack, unzipped, out>>

----------------------------------------------------------------------------
(* Bounds of the model *)

\* how many lines a hash-list file holds at most (SpecLoad)
MaxLines == 2
\* how many distinct scratch-directory names TempDir can draw
MaxTemp == 3

----------------------------------------------------------------------------
(* Strings *)

Upper == <<"A","B","C","D","E","F","G","H","I","J","K","L","M",
           "N","O","P","Q","R","S","T","U","V","W","X","Y","Z">>
Lower == <<"a","b","c","d","e","f","g","h","i","j","k","l","m",
           "n","o","p","q","r","s","t","u","v","w","x","y","z">>
Digits == <<"0","1","2","3","4","5","6","7","8","9">>

\* the characters of the model in byte order
Alphabet == <<"\t", "\r", " ", ".", "/">> \o Digits \o Upper \o <<"_">> \o Lower

\* the byte order of the characters
OrdOf == [c \in {Alphabet[i] : i \in DOMAIN Alphabet} |->
             CHOOSE i \in DOMAIN Alphabet : Alphabet[i] = c]

Ord(c) == OrdOf[c]

Range(s) == {s[i] : i \in DOMAIN s}

LowerOf == [c \in Range(Upper) |-> Lower[CHOOSE i \in DOMAIN Upper : Upper[i] = c]]

\* unicode.ToLower on one character
ToLowerChar(c) == IF c \in DOMAIN LowerOf THEN LowerOf[c] ELSE c

\* strings.ToLower
ToLower(s) == [i \in DOMAIN s |-> ToLowerChar(s[i])]

\* strings.HasSuffix
HasSuffix(s, suffix) ==
    /\ Len(s) >= Len(suffix)
    /\ \A i \in DOMAIN suffix : s[Len(s) - Len(suffix) + i] = suffix[i]

IsSpace(c) == c \in {" ", "\t", "\r"}

\* strings.TrimSpace
TrimSpace(s) ==
    LET keep == {i \in DOMAIN s : ~IsSpace(s[i])}
    IN  IF keep = {} THEN <<>>
        ELSE LET lo == CHOOSE i \in keep : \A j \in keep : i <= j
                 hi == CHOOSE i \in keep : \A j \in keep : j <= i
             IN  SubSeq(s, lo, hi)

\* the order of sort.Strings: bytewise lexical
LessStr(a, b) ==
    \/ /\ Len(a) < Len(b)
       /\ \A i \in DOMAIN a : a[i] = b[i]
    \/ \E k \in DOMAIN a \cap DOMAIN b :
          /\ \A i \in 1..(k - 1) : a[i] = b[i]
          /\ Ord(a[k]) < Ord(b[k])

\* sort.Strings on a set of names: the i-th is the one with i - 1 below it
SortStrings(S) ==
    [i \in 1..Cardinality(S) |->
        CHOOSE x \in S : Cardinality({y \in S : LessStr(y, x)}) = i - 1]

\* a path as the string filepath.Join builds: the names with separators
PathString(p) ==
    LET joined[k \in 0..Len(p)] ==
            IF k = 0 THEN <<>>
            ELSE IF k = 1 THEN p[1]
            ELSE joined[k - 1] \o <<"/">> \o p[k]
    IN  joined[Len(p)]

Join(dir, name) == Append(dir, name)

\* filepath.Dir
Dir(p) == SubSeq(p, 1, Len(p) - 1)

\* the name of an entry: the last name of its path
Base(p) == p[Len(p)]

IsPrefix(p, q) == Len(p) <= Len(q) /\ SubSeq(q, 1, Len(p)) = p

DotMd5 == <<".", "m", "d", "5">>
DotZip == <<".", "z", "i", "p">>

----------------------------------------------------------------------------
(* Digests *)

\* length of an MD5 digest in hexadecimal characters
HashLen == 32

HexDigits == <<"0","1","2","3","4","5","6","7","8","9","a","b","c","d","e","f">>

\* hex.EncodeToString
EncodeToString(bytes) ==
    [i \in 1..(2 * Len(bytes)) |->
        LET b == bytes[(i + 1) \div 2]
        IN  IF i % 2 = 1 THEN HexDigits[(b \div 16) + 1] ELSE HexDigits[(b % 16) + 1]]

\* md5 of the byte streams the model's files hold
Md5Sum(content) ==
    CASE content = "eicar" ->
            <<68,216,134,18,254,168,168,243,109,232,46,18,120,171,176,47>>
      [] content = "hello" ->
            <<93,65,64,42,188,75,42,118,185,113,157,145,16,23,197,146>>
      [] OTHER ->   \* the empty stream
            <<212,29,140,217,143,0,178,4,233,128,9,152,236,248,66,126>>

Eicar == EncodeToString(Md5Sum("eicar"))

----------------------------------------------------------------------------
(* The file system *)

NoBlob == [kind |-> "none", bytes |-> "", entries |-> <<>>]

\* a byte stream that is no archive
Data(b) == [kind |-> "data", bytes |-> b, entries |-> <<>>]

\* a well-formed ZIP container with the given entries
Zip(es) == [kind |-> "zip", bytes |-> "", entries |-> es]

\* an entry of an archive: a relative path, and for a file entry its stream,
\* whether its mode lets the extracted copy be read, and whether its
\* compressed stream is damaged
FileEntry(n, blob, readable, corrupt) ==
    [name |-> n, isDir |-> FALSE, blob |-> blob, readable |-> readable, corrupt |-> corrupt]
DirEntry(n) ==
    [name |-> n, isDir |-> TRUE, blob |-> NoBlob, readable |-> TRUE, corrupt |-> FALSE]

\* a directory; mode "rwx" can be listed and searched, "r" can be listed but
\* its entries cannot be lstat'ed, "none" cannot be listed
DirNode(mode) == [type |-> "dir", mode |-> mode, blob |-> NoBlob, readable |-> TRUE]
FileNode(blob, readable) == [type |-> "file", mode |-> "", blob |-> blob, readable |-> readable]

Children(f, d) == {p \in DOMAIN f : Len(p) = Len(d) + 1 /\ IsPrefix(d, p)}

\* os.Lstat(p) succeeds
LstatOK(f, p) ==
    /\ p \in DOMAIN f
    /\ Dir(p) \in DOMAIN f => f[Dir(p)].mode = "rwx"

\* readDirNames(p) succeeds
ReadDirOK(f, p) == f[p].mode # "none"

\* the walk hands the entry to the callback with an error
AccessError(f, p) ==
    IF LstatOK(f, p) THEN f[p].type = "dir" /\ ~ReadDirOK(f, p) ELSE TRUE

\* readDirNames: the names of a directory, sorted
ReadDirNames(f, p) == SortStrings({Base(c) : c \in Children(f, p)})

\* f with path p set to node n
Put(f, p, n) == [q \in DOMAIN f \cup {p} |-> IF q = p THEN n ELSE f[q]]

\* os.MkdirAll(p): [ok, fs]
RECURSIVE MkdirAll(_, _)
MkdirAll(f, p) ==
    IF p \in DOMAIN f
    THEN [ok |-> f[p].type = "dir", fs |-> f]
    ELSE IF p = <<>> THEN [ok |-> TRUE, fs |-> f]
    ELSE LET up == MkdirAll(f, Dir(p))
         IN  IF up.ok THEN [ok |-> TRUE, fs |-> Put(up.fs, p, DirNode("rwx"))]
             ELSE up

----------------------------------------------------------------------------
(* The hash list loader *)

\* os.Open on a hash-list file succeeds
CanOpen(file) == file.openable

\* the Scan loop with the length of line 51 taken of the untrimmed line
RECURSIVE AddLinesUntrimmed(_, _)
AddLinesUntrimmed(hashes, lines) ==
    IF lines = <<>> THEN hashes
    ELSE LET line == TrimSpace(Head(lines))
         IN  AddLinesUntrimmed(IF Len(Head(lines)) = HashLen THEN hashes \cup {line}
                               ELSE hashes,
                               Tail(lines))

\* loadHashesFromFile: the map after the Scan loop over a file's lines
RECURSIVE AddLines(_, _)
AddLines(hashes, lines) ==
    IF lines = <<>> THEN hashes
    ELSE LET line == TrimSpace(Head(lines))
         IN  AddLines(IF Len(line) = HashLen THEN hashes \cup {line} ELSE hashes,
                      Tail(lines))

\* loadHashesFromFile: [err, hashes]
LoadHashesFromFile(hashes, file) ==
    IF ~CanOpen(file) THEN [err |-> TRUE, hashes |-> hashes]
    ELSE [err |-> file.readErr, hashes |-> AddLines(hashes, file.lines)]

\* the test of line 28
IsHashList(name) == HasSuffix(ToLower(name), DotMd5)

Report(kind, path) == [kind |-> kind, path |-> path, n |-> 0]

\* the hard-coded table of part_000
MalwareTable == [eicar_test_file |-> Eicar]

\* the digests a file is compared with
KnownHashes == IF prog = "arfarf" THEN malwareHashes ELSE {MalwareTable[k] : k \in DOMAIN MalwareTable}

----------------------------------------------------------------------------
(* Hashing and the verdict *)

\* computeMD5: os.Open fails on a file the process may not read
ComputeMD5(f, p) ==
    IF ~f[p].readable THEN [err |-> TRUE, sum |-> <<>>]
    ELSE [err |-> FALSE, sum |-> EncodeToString(Md5Sum(f[p].blob.bytes))]

\* scanFile with the test of line 81 negated
ScanFileNegated(f, hashes, p) ==
    LET h == ComputeMD5(f, p)
    IN  IF h.err THEN Report("hash-error", p)
        ELSE IF h.sum \notin hashes THEN Report("flagged", p)
        ELSE Report("clean", p)

\* scanFile of src/arfarf.go: the line it prints
ScanFile(f, hashes, p) ==
    LET h == ComputeMD5(f, p)
    IN  IF h.err THEN Report("hash-error", p)
        ELSE IF h.sum \in hashes THEN Report("flagged", p)
        ELSE Report("clean", p)

\* scanFile of part_000: the loop over the hard-coded table
ScanFile0(f, table, p) ==
    LET h == ComputeMD5(f, p)
    IN  IF h.err THEN Report("hash-error", p)
        ELSE IF \E name \in DOMAIN table : h.sum = table[name] THEN Report("flagged", p)
        ELSE Report("clean", p)

----------------------------------------------------------------------------
(* extractZip *)

Unzipped == <<"u","n","z","i","p","p","e","d">>

\* the names ioutil.TempDir(dir, "unzipped") may create
TempNames == {Unzipped \o <<Digits[i + 1]>> : i \in 1..MaxTemp}

\* the loop of lines 101-129 from entry i on: [err, fs]
RECURSIVE ExtractEntries(_, _, _, _)
ExtractEntries(f, tempDir, entries, i) ==
    IF i > Len(entries) THEN [err |-> FALSE, fs |-> f]
    ELSE
      LET e == entries[i]
          fPath == tempDir \o e.name
      IN  IF e.isDir
          THEN ExtractEntries(MkdirAll(f, fPath).fs, tempDir, entries, i + 1)
          ELSE
            LET made == MkdirAll(f, Dir(fPath))
                g == made.fs
                \* os.OpenFile(fPath, O_WRONLY|O_CREATE|O_TRUNC, f.Mode()) fails
                \* on a directory and on a file of mode 000; an existing file
                \* keeps its mode
                openErr == /\ fPath \in DOMAIN g
                           /\ (g[fPath].type = "dir" \/ ~g[fPath].readable)
                mode == IF fPath \in DOMAIN g THEN g[fPath].readable ELSE e.readable
            IN  IF ~made.ok THEN [err |-> TRUE, fs |-> g]
                ELSE IF openErr THEN [err |-> TRUE, fs |-> g]
                ELSE IF e.corrupt
                THEN [err |-> TRUE, fs |-> Put(g, fPath, FileNode(Data(""), mode))]
                ELSE ExtractEntries(Put(g, fPath, FileNode(e.blob, mode)),
                                    tempDir, entries, i + 1)

\* extractZip(zipPath): [err, dir, fs]; name is the directory TempDir draws,
\* tempOK whether TempDir succeeds
ExtractZip(f, tmp, zipPath, name, tempOK) ==
    LET node == f[zipPath]
        tempDir == Join(tmp, name)
    IN  IF ~node.readable \/ node.blob.kind # "zip"      \* zip.OpenReader
        THEN [err |-> TRUE, dir |-> <<>>, fs |-> f]
        ELSE IF ~tempOK \/ tempDir \in DOMAIN f \/ tmp \notin DOMAIN f
        THEN [err |-> TRUE, dir |-> <<>>, fs |-> f]
        ELSE LET r == ExtractEntries(Put(f, tempDir, DirNode("rwx")), tempDir,
                                     node.blob.entries, 1)
             IN  [err |-> r.err, dir |-> IF r.err THEN <<>> ELSE tempDir, fs |-> r.fs]

\* the test of line 145
IsZipPath(p) == HasSuffix(ToLower(PathString(p)), DotZip)

----------------------------------------------------------------------------
(* filepath.Walk *)

CallFrame(p) == [kind |-> "call", dir |-> p, names |-> <<>>]
DirFrame(p, names) == [kind |-> "dir", dir |-> p, names |-> names]

Top == stack[Len(stack)]

\* a walk has an entry to hand to the callback
HasEntry == /\ pc = "scan"
            /\ stack # <<>>
            /\ (Top.kind = "call" \/ Top.names # <<>>)

\* the path the walk visits next
Cur == IF Top.kind = "call" THEN Top.dir ELSE Join(Top.dir, Head(Top.names))

\* the frames once that entry is consumed
Rest == IF Top.kind = "call" THEN SubSeq(stack, 1, Len(stack) - 1)
        ELSE [stack EXCEPT ![Len(stack)].names = Tail(@)]

----------------------------------------------------------------------------
(* The inputs of a run *)

\* file names
N_s == <<"s">>
N_tmp == <<"t","m","p">>
N_a == <<"a">>
N_k == <<"k">>
N_l == <<"l">>
N_d == <<"d">>
N_nope == <<"n","o","p","e">>
N_eicar == <<"e","i","c","a","r",".","c","o","m">>
N_hello == <<"h","e","l","l","o",".","t","x","t">>
N_m == <<"m",".","z","i","p">>
N_x == <<"x",".","Z","I","P">>
N_q == <<"q",".","t","x","t">>
N_z == <<"z",".","t","x","t">>
N_f == <<"f",".","t","x","t">>
N_p == <<"p",".","t","x","t">>
N_in == <<"i","n",".","z","i","p">>
N_mid == <<"m","i","d",".","Z","i","p">>
N_ok == <<"o","k",".","t","x","t">>
N_u == <<"u",".","t","x","t">>
N_g == <<"g",".","t","x","t">>
N_c == <<"c",".","t","x","t">>
N_bad_md5 == <<"b","a","d",".","m","d","5">>
N_MORE_MD5 == <<"M","O","R","E",".","M","D","5">>
N_readme == <<"r","e","a","d","m","e",".","t","x","t">>

\* archives: one known-bad payload; an archive in an archive; three levels;
\* a directory entry, a payload below it and an entry of mode 000; a damaged
\* second entry; an entry below a path that is a file
ZPayload == Zip(<<FileEntry(<<N_p>>, Data("eicar"), TRUE, FALSE)>>)
ZNested == Zip(<<FileEntry(<<N_in>>, ZPayload, TRUE, FALSE),
                 FileEntry(<<N_ok>>, Data("hello"), TRUE, FALSE)>>)
ZDeep == Zip(<<FileEntry(<<N_mid>>, ZNested, TRUE, FALSE)>>)
ZMixed == Zip(<<DirEntry(<<N_d>>),
                FileEntry(<<N_d, N_p>>, Data("eicar"), TRUE, FALSE),
                FileEntry(<<N_u>>, Data("hello"), FALSE, FALSE)>>)
ZCorrupt == Zip(<<FileEntry(<<N_g>>, Data("eicar"), TRUE, FALSE),
                  FileEntry(<<N_c>>, Data("hello"), TRUE, TRUE),
                  FileEntry(<<N_ok>>, Data("hello"), TRUE, FALSE)>>)
ZConflict == Zip(<<FileEntry(<<N_g>>, Data("hello"), TRUE, FALSE),
                   FileEntry(<<N_g, N_p>>, Data("eicar"), TRUE, FALSE)>>)

\* what the file m.zip of the scanned directory may be
ZipFiles == {FileNode(ZPayload, TRUE), FileNode(ZNested, TRUE), FileNode(ZDeep, TRUE),
             FileNode(ZMixed, TRUE), FileNode(ZCorrupt, TRUE), FileNode(ZConflict, TRUE),
             FileNode(Data("hello"), TRUE), FileNode(ZPayload, FALSE)}

At(p, n) == [path |-> p, node |-> n]

MkFs(S) == [p \in {e.path : e \in S} |-> (CHOOSE e \in S : e.path = p).node]

\* the scanned directory s: a/ with a known-bad and a clean file, z.txt, and
\* optionally m.zip, the entries that cannot be accessed (k/ cannot be listed,
\* l/ cannot be searched, q.txt cannot be read) and x.ZIP
Tree(tmp, zips, errs, late) ==
    MkFs({At(<<N_s>>, DirNode("rwx")), At(tmp, DirNode("rwx")),
          At(<<N_s, N_a>>, DirNode("rwx")),
          At(<<N_s, N_a, N_eicar>>, FileNode(Data("eicar"), TRUE)),
          At(<<N_s, N_a, N_hello>>, FileNode(Data("hello"), TRUE)),
          At(<<N_s, N_z>>, FileNode(Data("hello"), TRUE))}
         \cup {At(<<N_s, N_m>>, z) : z \in zips}
         \cup (IF errs
               THEN {At(<<N_s, N_k>>, DirNode("none")),
                     At(<<N_s, N_k, N_f>>, FileNode(Data("eicar"), TRUE)),
                     At(<<N_s, N_l>>, DirNode("r")),
                     At(<<N_s, N_l, N_f>>, FileNode(Data("eicar"), TRUE)),
                     At(<<N_s, N_q>>, FileNode(Data("eicar"), FALSE))}
               ELSE {})
         \cup (IF late THEN {At(<<N_s, N_x>>, FileNode(ZPayload, TRUE))} ELSE {}))

HashFile(name, openable, lines, readErr) ==
    [name |-> name, openable |-> openable, lines |-> lines, readErr |-> readErr]

\* the directory virus_md5_hashes: whether ioutil.ReadDir succeeds, and its
\* entries by file name
HashDir(ok, files) == [ok |-> ok, files |-> files]

\* the hash directories of the scanning runs
ScanHashDirs ==
    {HashDir(FALSE, <<>>), HashDir(TRUE, <<>>),
     HashDir(TRUE, <<HashFile(N_bad_md5, TRUE, <<Eicar>>, FALSE),
                     HashFile(N_readme, TRUE, <<>>, FALSE)>>)}

\* the start of main
InitRun ==
    /\ pc = "main"
    /\ loadIdx = 0
    /\ malwareHashes = {}
    /\ stack = <<>>
    /\ unzipped = {}
    /\ out = <<>>

Init ==
    /\ InitRun
    /\ prog \in {"arfarf", "part_000"}
    /\ hashDir \in IF prog = "arfarf" THEN ScanHashDirs ELSE {HashDir(FALSE, <<>>)}
    /\ root \in {<<N_s>>, <<N_s, N_a, N_eicar>>, <<N_nope>>}
    /\ tmpDir \in {<<N_tmp>>, <<N_s, N_tmp>>}
    /\ \E zips \in {{}} \cup {{z} : z \in ZipFiles}, errs \in BOOLEAN, late \in BOOLEAN :
          fs = Tree(tmpDir, zips, errs, late)


\* lines of hash-list files: a digest, the same between white space, in upper
\* case, and cut short
UpperCase(s) ==
    [i \in DOMAIN s |->
        IF s[i] \in Range(Lower) THEN Upper[CHOOSE k \in DOMAIN Lower : Lower[k] = s[i]]
        ELSE s[i]]

HashLines == {Eicar, <<"\t">> \o Eicar \o <<" ">>, UpperCase(Eicar),
              SubSeq(Eicar, 1, HashLen - 1)}

SeqsUpTo(S, n) == UNION {[1..k -> S] : k \in 0..n}

\* a hash-list file as the loader finds it: one that cannot be opened, one
\* whose lines the scanner yields, or one whose read ends in an error after
\* at most one line
FileAttrs ==
    [openable : {FALSE}, lines : {<<Eicar>>}, readErr : {FALSE}]
    \cup [openable : {TRUE}, lines : SeqsUpTo(HashLines, MaxLines), readErr : {FALSE}]
    \cup [openable : {TRUE}, lines : SeqsUpTo(HashLines, 1), readErr : {TRUE}]

\* the names of the two hash lists a hash directory may hold
HashListNames == {N_bad_md5, N_MORE_MD5}

\* the entries of a hash directory, in the order ioutil.ReadDir returns them;
\* readme.txt, when there, holds a digest too
HashFiles(names, attrs) ==
    [i \in 1..Cardinality(names) |->
        LET nm == SortStrings(names)[i]
        IN  IF nm \in HashListNames
            THEN HashFile(nm, attrs[nm].openable, attrs[nm].lines, attrs[nm].readErr)
            ELSE HashFile(nm, TRUE, <<Eicar>>, FALSE)]

\* the loading runs: any hash directory, and the file s/a/eicar.com scanned
InitLoad ==
    /\ InitRun
    /\ prog = "arfarf"
    /\ \E names \in SUBSET (HashListNames \cup {N_readme}) :
          \E attrs \in [names \cap HashListNames -> FileAttrs] :
             hashDir = HashDir(TRUE, HashFiles(names, attrs))
    /\ root = <<N_s, N_a, N_eicar>>
    /\ tmpDir = <<N_tmp>>
    /\ fs = Tree(tmpDir, {}, FALSE, FALSE)

----------------------------------------------------------------------------
(* main and loadHashesFromDir *)

\* main printing the error of loadHashesFromDir without the return of line 177
LoadDirFailNoReturn ==
    /\ pc = "main" /\ prog = "arfarf"
    /\ ~hashDir.ok
    /\ out' = out \o <<Report("fatal", <<>>),
                       [kind |-> "total", path |-> <<>>, n |-> Cardinality(malwareHashes)]>>
    /\ pc' = "scan"
    /\ stack' = <<CallFrame(root)>>
    /\ UNCHANGED <<prog, hashDir, loadIdx, malwareHashes, root, tmpDir, fs, unzipped>>

\* ioutil.ReadDir fails: main prints the error and returns
LoadDirFail ==
    /\ pc = "main" /\ prog = "arfarf"
    /\ ~hashDir.ok
    /\ out' = Append(out, Report("fatal", <<>>))
    /\ pc' = "exit"
    /\ UNCHANGED <<prog, hashDir, loadIdx, malwareHashes, root, tmpDir, fs, stack, unzipped>>

\* ioutil.ReadDir succeeds: the loop over the entries starts
LoadDirOK ==
    /\ pc = "main" /\ prog = "arfarf"
    /\ hashDir.ok
    /\ pc' = "load"
    /\ loadIdx' = 1
    /\ UNCHANGED <<prog, hashDir, malwareHashes, root, tmpDir, fs, stack, unzipped, out>>

\* an entry whose name does not end in .md5
LoadSkip ==
    /\ pc = "load" /\ loadIdx <= Len(hashDir.files)
    /\ ~IsHashList(hashDir.files[loadIdx].name)
    /\ loadIdx' = loadIdx + 1
    /\ UNCHANGED <<prog, pc, hashDir, malwareHashes, root, tmpDir, fs, stack, unzipped, out>>

\* an entry whose name ends in .md5: loadHashesFromFile, and the warning
LoadFile ==
    /\ pc = "load" /\ loadIdx <= Len(hashDir.files)
    /\ IsHashList(hashDir.files[loadIdx].name)
    /\ LET file == hashDir.files[loadIdx]
           r == LoadHashesFromFile(malwareHashes, file)
       IN  /\ malwareHashes' = r.hashes
           /\ out' = out \o <<Report("loading", <<file.name>>)>>
                         \o (IF r.err THEN <<Report("load-warning", <<file.name>>)>>
                             ELSE <<>>)
    /\ loadIdx' = loadIdx + 1
    /\ UNCHANGED <<prog, pc, hashDir, root, tmpDir, fs, stack, unzipped>>

\* loadHashesFromDir returns nil: main prints the total and calls scanDirectory
LoadReturn ==
    /\ pc = "load" /\ loadIdx > Len(hashDir.files)
    /\ out' = Append(out, [kind |-> "total", path |-> <<>>,
                           n |-> Cardinality(malwareHashes)])
    /\ pc' = "scan"
    /\ stack' = <<CallFrame(root)>>
    /\ UNCHANGED <<prog, hashDir, loadIdx, malwareHashes, root, tmpDir, fs, unzipped>>

\* main of part_000: scanDirectory at once
Main0 ==
    /\ pc = "main" /\ prog = "part_000"
    /\ pc' = "scan"
    /\ stack' = <<CallFrame(root)>>
    /\ UNCHANGED <<prog, hashDir, loadIdx, malwareHashes, root, tmpDir, fs, unzipped, out>>

----------------------------------------------------------------------------
(* scanDirectory: the callback of filepath.Walk *)

\* the callback returning the error it was handed, which ends the walk
CallbackErrorAbort ==
    /\ HasEntry
    /\ AccessError(fs, Cur)
    /\ out' = Append(out, Report("access-error", Cur))
    /\ stack' = <<>>
    /\ UNCHANGED <<prog, pc, hashDir, loadIdx, malwareHashes, root, tmpDir, fs, unzipped>>

\* Lstat or the listing of the entry failed: lines 137-140
CallbackError ==
    /\ HasEntry
    /\ AccessError(fs, Cur)
    /\ out' = Append(out, Report("access-error", Cur))
    /\ stack' = Rest
    /\ UNCHANGED <<prog, pc, hashDir, loadIdx, malwareHashes, root, tmpDir, fs, unzipped>>

\* a directory: lines 141-143, and the walk descends into it
CallbackDir ==
    /\ HasEntry
    /\ LstatOK(fs, Cur) /\ fs[Cur].type = "dir" /\ ReadDirOK(fs, Cur)
    /\ stack' = Append(Rest, DirFrame(Cur, ReadDirNames(fs, Cur)))
    /\ UNCHANGED <<prog, pc, hashDir, loadIdx, malwareHashes, root, tmpDir, fs, unzipped, out>>

\* the callback without the call of line 152: the archive is extracted and
\* its scratch directory is not scanned
ZipStepNoScan(name, tempOK) ==
    LET r == ExtractZip(fs, tmpDir, Cur, name, tempOK)
    IN  /\ fs' = r.fs
        /\ out' = IF r.err
                  THEN out \o <<Report("zip-detected", Cur), Report("extract-error", Cur)>>
                  ELSE Append(out, Report("zip-detected", Cur))
        /\ stack' = Rest
        /\ unzipped' = IF r.err THEN unzipped ELSE unzipped \cup {r.dir}

\* what the callback does with an archive: lines 145-154
ZipStep(name, tempOK) ==
    LET r == ExtractZip(fs, tmpDir, Cur, name, tempOK)
    IN  /\ fs' = r.fs
        /\ IF r.err
           THEN /\ out' = out \o <<Report("zip-detected", Cur), Report("extract-error", Cur)>>
                /\ stack' = Rest
                /\ unzipped' = unzipped
           ELSE /\ out' = Append(out, Report("zip-detected", Cur))
                /\ stack' = Append(Rest, CallFrame(r.dir))
                /\ unzipped' = unzipped \cup {r.dir}

\* a file whose path ends in .zip
CallbackZip ==
    /\ HasEntry
    /\ LstatOK(fs, Cur) /\ fs[Cur].type = "file" /\ IsZipPath(Cur)
    /\ \E tempOK \in BOOLEAN :
          LET free == {n \in TempNames : Join(tmpDir, n) \notin DOMAIN fs}
          IN  IF tempOK /\ free # {}
              THEN \E name \in free : ZipStep(name, TRUE)
              ELSE ZipStep(Unzipped, FALSE)
    /\ UNCHANGED <<prog, pc, hashDir, loadIdx, malwareHashes, root, tmpDir>>

\* the line scanFile prints for the entry: line 156
Verdict(p) ==
    IF prog = "arfarf" THEN ScanFile(fs, malwareHashes, p)
    ELSE ScanFile0(fs, MalwareTable, p)

\* any other file
CallbackFile ==
    /\ HasEntry
    /\ LstatOK(fs, Cur) /\ fs[Cur].type = "file" /\ ~IsZipPath(Cur)
    /\ out' = Append(out, Verdict(Cur))
    /\ stack' = Rest
    /\ UNCHANGED <<prog, pc, hashDir, loadIdx, malwareHashes, root, tmpDir, fs, unzipped>>

\* the loop of walk over a directory's names is over
WalkReturn ==
    /\ pc = "scan" /\ stack # <<>>
    /\ Top.kind = "dir" /\ Top.names = <<>>
    /\ stack' = SubSeq(stack, 1, Len(stack) - 1)
    /\ UNCHANGED <<prog, pc, hashDir, loadIdx, malwareHashes, root, tmpDir, fs, unzipped, out>>

\* the outermost scanDirectory returns to main, which ends
ScanReturn ==
    /\ pc = "scan" /\ stack = <<>>
    /\ pc' = "exit"
    /\ UNCHANGED <<prog, hashDir, loadIdx, malwareHashes, root, tmpDir, fs, stack, unzipped, out>>

Next ==
    \/ LoadDirFail
    \/ LoadDirOK
    \/ LoadSkip
    \/ LoadFile
    \/ LoadReturn
    \/ Main0
    \/ CallbackError
    \/ CallbackDir
    \/ CallbackZip
    \/ CallbackFile
    \/ WalkReturn
    \/ ScanReturn

Spec == Init /\ [][Next]_vars

\* the runs that load any hash directory, beside the scanning runs
SpecLoad == (Init \/ InitLoad) /\ [][Next]_vars

\* the program is one thread of control: it takes its next step
FairSpec == Init /\ [][Next]_vars /\ WF_vars(Next)

----------------------------------------------------------------------------
(* What the claims speak of *)

Count(kinds, p) ==
    Cardinality({i \in DOMAIN out : out[i].kind \in kinds /\ out[i].path = p})

\* the Flagged and Clean lines printed for a path
Verdicts(p) == Count({"flagged", "clean"}, p)

\* the lines scanFile prints
ScanFileKinds == {"flagged", "clean", "hash-error"}

\* the digest of the stream a file holds
Digest(f, p) == EncodeToString(Md5Sum(f[p].blob.bytes))

\* a regular file that can be read and is no archive by name
PlainFile(f, p) ==
    /\ p \in DOMAIN f
    /\ f[p].type = "file" /\ f[p].readable
    /\ ~IsZipPath(p)

\* below a scratch directory, and the scratch directory it is below
IsScratch(p) == \E n \in TempNames : IsPrefix(Join(tmpDir, n), p)
ScratchOf(p) == SubSeq(p, 1, Len(tmpDir) + 1)

\* p can be reached from the scan root: every directory from the root down
\* to it can be listed and searched
Reachable(f, p) ==
    /\ p \in DOMAIN f
    /\ IsPrefix(root, p)
    /\ \A k \in Len(root)..(Len(p) - 1) :
          LET q == SubSeq(p, 1, k)
          IN  q \in DOMAIN f /\ f[q].type = "dir" /\ f[q].mode = "rwx"

\* the files of the scanned tree as the run found it
Original(f) == {p \in DOMAIN f : f[p].type = "file" /\ Reachable(f, p) /\ ~IsScratch(p)}

\* main got as far as scanDirectory
Scanned == prog = "part_000" \/ hashDir.ok

----------------------------------------------------------------------------
(* C1 *)

C1Step ==
    (HasEntry /\ LstatOK(fs, Cur) /\ PlainFile(fs, Cur))
    => out' = Append(out, Report(IF Digest(fs, Cur) \in KnownHashes
                                 THEN "flagged" ELSE "clean", Cur))

\* no file has both a Malware found and a Clean line
C1Exclusive ==
    \A i, j \in DOMAIN out :
        (out[i].kind = "flagged" /\ out[j].kind = "clean") => out[i].path # out[j].path

\* C1: every step in which scanFile is invoked on a readable file that is no
\* archive prints exactly one line for that file, Malware found when the
\* file's digest is in the known-bad set and Clean when it is not; and no
\* file is ever given both verdicts.
C1_ScanFileVerdict == [][C1Step]_vars /\ []C1Exclusive

\* a run of src/arfarf.go has printed a Malware found and a Clean line
C1_Witness ==
    /\ prog = "arfarf"
    /\ \E i, j \in DOMAIN out : out[i].kind = "flagged" /\ out[j].kind = "clean"

----------------------------------------------------------------------------
(* C2 *)

\* the entry cannot be accessed, or is a file to hash that cannot be read
Failing(f, p) ==
    IF AccessError(f, p) THEN TRUE
    ELSE f[p].type = "file" /\ ~IsZipPath(p) /\ ~f[p].readable

C2Step ==
    (HasEntry /\ Failing(fs, Cur))
    => /\ \E k \in {"access-error", "hash-error"} : out' = Append(out, Report(k, Cur))
       /\ stack' = Rest
       /\ pc' = "scan"

\* an entry with an error report has no verdict
C2NoVerdict ==
    \A i \in DOMAIN out :
        out[i].kind \in {"access-error", "hash-error"} => Verdicts(out[i].path) = 0

\* at the end every readable file of the scanned tree that is no archive and
\* can be reached has a verdict
C2Final ==
    (pc = "exit" /\ Scanned)
    => \A p \in Original(fs) : PlainFile(fs, p) => Verdicts(p) >= 1

----------------------------------------------------------------------------
(* C3 *)

\* an archive every entry of which extractZip can write
WellFormed(blob) ==
    /\ blob.kind = "zip"
    /\ ~ExtractEntries(MkFs({At(<<N_tmp>>, DirNode("rwx"))}), <<N_tmp>>,
                       blob.entries, 1).err

\* the known-bad readable files inside an archive at any depth, each with the
\* names of the archives it lies in
RECURSIVE Inside(_, _)
Inside(blob, via) ==
    UNION {IF e.isDir THEN {}
           ELSE IF IsZipPath(e.name)
           THEN IF e.readable /\ WellFormed(e.blob)
                THEN Inside(e.blob, via \cup {Base(e.name)})
                ELSE {}
           ELSE IF e.readable /\ EncodeToString(Md5Sum(e.blob.bytes)) \in KnownHashes
           THEN {[name |-> Base(e.name), via |-> via]}
           ELSE {} :
           e \in Range(blob.entries)}

\* those of the well-formed archives of the scanned tree
DeepBad ==
    UNION {Inside(fs[p].blob, {Base(p)}) :
              p \in {q \in Original(fs) :
                        IsZipPath(q) /\ fs[q].readable /\ WellFormed(fs[q].blob)}}

\* a Malware found line for the extracted copy
FlaggedCopy(d) ==
    \E i \in DOMAIN out :
        /\ out[i].kind = "flagged"
        /\ IsScratch(out[i].path)
        /\ Base(out[i].path) = d.name

\* the extraction of one of the archives around it failed
ExtractFailed(via) ==
    \E i \in DOMAIN out : out[i].kind = "extract-error" /\ Base(out[i].path) \in via

C3Final ==
    (pc = "exit" /\ Scanned)
    => \A d \in DeepBad : FlaggedCopy(d) \/ ExtractFailed(d.via)

\* C3: the scan reaches its end, and then every readable known-bad file that
\* lies inside one or more levels of well-formed archives of the scanned tree
\* has a Malware found line for its extracted copy, unless the extraction of
\* one of the archives around it failed.
C3_NestedFlagged == <>(pc = "exit") /\ [](C3Final)

\* the end of a scan in which a known-bad file three archives deep was flagged
\* and no extraction around it failed
C3_Witness ==
    /\ pc = "exit"
    /\ \E d \in DeepBad :
          Cardinality(d.via) = 3 /\ FlaggedCopy(d) /\ ~ExtractFailed(d.via)

----------------------------------------------------------------------------
(* C4 *)

\* C4: no file is given more than one verdict in a run, also when the scratch
\* directories lie under the scan root.
C4_OneVerdict == \A i \in DOMAIN out : Verdicts(out[i].path) <= 1

----------------------------------------------------------------------------
(* C5 *)

\* C5: no file whose name ends in .zip is passed to scanFile, and at the end
\* of the scan every readable file that is no archive, in a scratch directory
\* extractZip returned, has exactly one verdict.
C5_ZipNoVerdict ==
    /\ \A i \in DOMAIN out : out[i].kind \in ScanFileKinds => ~IsZipPath(out[i].path)
    /\ pc = "exit" =>
          \A p \in DOMAIN fs :
              (PlainFile(fs, p) /\ IsScratch(p) /\ ScratchOf(p) \in unzipped)
              => Verdicts(p) = 1

----------------------------------------------------------------------------
(* C9 *)

\* C9: a file in the scratch directory of an extraction that failed is never
\* passed to scanFile, and each failed extraction is reported once.
C9_FailedUnscanned ==
    /\ \A p \in DOMAIN fs :
          (fs[p].type = "file" /\ IsScratch(p) /\ ScratchOf(p) \notin unzipped)
          => Count(ScanFileKinds, p) = 0
    /\ \A i \in DOMAIN out :
          Count({"extract-error"}, out[i].path) <= Count({"zip-detected"}, out[i].path)

----------------------------------------------------------------------------
(* C10 *)

\* the archives inside an archive, at any depth
RECURSIVE Nested(_, _)
Nested(blob, i) ==
    IF i > Len(blob.entries) THEN 0
    ELSE LET e == blob.entries[i]
         IN  (IF ~e.isDir /\ IsZipPath(e.name) THEN 1 + Nested(e.blob, 1) ELSE 0)
             + Nested(blob, i + 1)

RECURSIVE Sum(_, _)
Sum(S, f) == IF S = {} THEN 0
             ELSE LET x == CHOOSE y \in S : TRUE IN f[x] + Sum(S \ {x}, f)

\* the archives of the scanned tree, those inside archives counted
ArchiveOccurrences ==
    LET zips == {p \in Original(fs) : IsZipPath(p)}
    IN  Sum(zips, [p \in zips |-> 1 + Nested(fs[p].blob, 1)])

\* the calls of extractZip so far
Extractions == Cardinality({i \in DOMAIN out : out[i].kind = "zip-detected"})

\* C10: the number of extractions of a scan is at most the number of archives
\* of the scanned tree, those inside archives counted, also when the scratch
\* directories lie under a directory the walk has yet to enter.
C10_ExtractionsBounded == Extractions <= ArchiveOccurrences

\* every scan reaches its end
Terminates == <>(pc = "exit")

----------------------------------------------------------------------------
(* C6 *)

IsLowerHex(h) == \A i \in DOMAIN h : h[i] \in Range(HexDigits)

\* the lines of the hash-list files the loader has read
LoadedLines ==
    UNION {Range(hashDir.files[k].lines) :
              k \in {j \in DOMAIN hashDir.files :
                        /\ j < loadIdx
                        /\ IsHashList(hashDir.files[j].name)
                        /\ CanOpen(hashDir.files[j])}}

\* C6: every string in the known-bad set is lower-case hexadecimal, and no
\* file is reported Clean whose digest a loaded hash-list line spells in
\* whatever case.
C6_NormalizedCase ==
    prog = "arfarf" =>
       /\ \A h \in malwareHashes : IsLowerHex(h)
       /\ \A i \in DOMAIN out :
             out[i].kind = "clean"
             => ~\E l \in LoadedLines :
                    ToLower(TrimSpace(l)) = Digest(fs, out[i].path)

----------------------------------------------------------------------------
(* C7 *)

\* the distinct trimmed lines of length 32 of the .md5 files that can be opened
ExpectedHashes ==
    {TrimSpace(l) :
        l \in {m \in UNION {Range(hashDir.files[k].lines) :
                               k \in {j \in DOMAIN hashDir.files :
                                         /\ IsHashList(hashDir.files[j].name)
                                         /\ hashDir.files[j].openable}} :
                  Len(TrimSpace(m)) = HashLen}}

\* C7: once loadHashesFromDir has returned, the known-bad set is exactly the
\* set of distinct trimmed lines of length 32 of the .md5 files that could be
\* opened, and the total main prints is the size of that set.
C7_LoadedSet ==
    (prog = "arfarf" /\ pc \in {"scan", "exit"} /\ hashDir.ok)
    => /\ malwareHashes = ExpectedHashes
       /\ \A i \in DOMAIN out :
             out[i].kind = "total" => out[i].n = Cardinality(ExpectedHashes)

\* two .md5 files that both hold the same digest, one of them beside a line
\* of another length, loaded into a set of one
C7_Witness ==
    /\ prog = "arfarf" /\ pc = "exit" /\ hashDir.ok
    /\ Len(hashDir.files) = 2
    /\ \A k \in 1..2 : /\ IsHashList(hashDir.files[k].name)
                       /\ hashDir.files[k].openable
                       /\ Eicar \in Range(hashDir.files[k].lines)
    /\ \E l \in Range(hashDir.files[1].lines) : Len(TrimSpace(l)) # HashLen
    /\ malwareHashes = {Eicar}
    /\ \E i \in DOMAIN out : out[i].kind = "total" /\ out[i].n = 1

----------------------------------------------------------------------------
(* C8 *)

C8Fatal ==
    (prog = "arfarf" /\ ~hashDir.ok)
    => /\ pc \in {"main", "exit"}
       /\ stack = <<>> /\ unzipped = {}
       /\ \A i \in DOMAIN out : out[i].kind = "fatal"
       /\ pc = "exit" => out = <<Report("fatal", <<>>)>>

C8Loaded ==
    (prog = "arfarf" /\ (pc = "scan" \/ \E i \in DOMAIN out : out[i].kind \in ScanFileKinds))
    => hashDir.ok /\ loadIdx = Len(hashDir.files) + 1

\* C8: when the hash directory cannot be listed the run prints the error and
\* ends without a walk frame, an extraction or a scanFile line; a run that
\* scans has gone through every entry of the hash directory before, and the
\* known-bad set does not change during the scan.
C8_FatalLoad ==
    [](C8Fatal /\ C8Loaded) /\ [][pc = "scan" => malwareHashes' = malwareHashes]_vars

\* a run that ended on the hash directory's error
C8_Witness ==
    prog = "arfarf" /\ ~hashDir.ok /\ pc = "exit" /\ out = <<Report("fatal", <<>>)>>

====
